---------------------------- MODULE Spec2Model ----------------------------
(***************************************************************************)
(* A model of oxide/src/lib.rs: the software rasterizer (pixel buffer,     *)
(* alpha-blended pixel writes, clear, rectangles, circles, curve strokes), *)
(* the cubic Bezier engine (evaluate, bounding box, sampled distance) and  *)
(* the small geometry types (Vector2u32, Rectangle, Camera).               *)
(*                                                                         *)
(* Representation of the source's machine types                            *)
(*   u8            a number in 0..255                                      *)
(*   u32 colour    the record [a, r, g, b] of its four bytes, 0xAARRGGBB   *)
(*   u32 (general) the record [hi, lo] of its two 16-bit halves where the  *)
(*                 full range matters (Vector2u32 subtraction); a plain    *)
(*                 number where the value is a small pixel coordinate      *)
(*   memory        bytes, little-endian, addressed from the buffer's base  *)
(*   f32 (world)   a fixed-point number, an integer count of 1/WorldDen    *)
(*                 world units; camera.y_scale is a whole number of pixels *)
(*                 per world unit; t is a count of 1/TDen                  *)
(***************************************************************************)
EXTENDS Integers, Sequences, FiniteSets, TLC

VARIABLES
    buffer,     \* OffscreenBuffer: [width, height, pitch, memory]
    camera,     \* Camera: [x, y, width, height, y_scale]
    call,       \* the operation performed last, with its arguments
    result,     \* what that operation returned or left behind
    writes,     \* the draw_pixel_to_buffer calls it issued, in order
    status,     \* "ok", or how the operation ended otherwise
    steps       \* operations performed so far

vars == <<buffer, camera, call, result, writes, status, steps>>

(***************************************************************************)
(* Bounds of the model.                                                    *)
(***************************************************************************)
MaxSteps == 2

(***************************************************************************)
(* Small helpers.                                                          *)
(***************************************************************************)
Min(a, b) == IF a <= b THEN a ELSE b
Max(a, b) == IF a >= b THEN a ELSE b
Abs(a) == IF a < 0 THEN -a ELSE a

Byte == 0..255

(***************************************************************************)
(* Colours: u32 0xAARRGGBB held as its four bytes.                         *)
(***************************************************************************)
Color(a, r, g, b) == [a |-> a, r |-> r, g |-> g, b |-> b]

Black       == Color(0, 0, 0, 0)            \* 0x00000000, clear colour
Grey        == Color(255, 68, 68, 68)       \* 0xFF444444, grid colour
Red         == Color(255, 255, 0, 0)        \* 0xFFFF0000, marker colour
White       == Color(255, 255, 255, 255)    \* 0xFFFFFFFF, curve colour
BoxColor    == Color(51, 0, 221, 170)       \* 0x3300DDAA, bounding boxes
ClearInk    == Color(0, 18, 52, 86)         \* 0x00123456, alpha 0
HalfBlue    == Color(128, 0, 0, 255)        \* 0x800000FF, alpha 128

\* get_alpha: (color >> 24) as f32 / 255.0, held as the numerator over 255.
GetAlpha(color) == color.a

\* One channel of lerp_color: (a + t * (b - a)) as u8 with t = alpha / 255.
\* The quotient is exact here; the value lies between a and b, so the cast
\* truncates a number in 0..255.  (f32 rounding makes the source's result one
\* less for 16 alpha values in 129..165 when the exact value is an integer
\* and b < a; alpha 0, 51, 128 and 255 are exact for every a and b.)
LerpChannel(a, b, alpha) == (a * 255 + alpha * (b - a)) \div 255

\* lerp_color: the three colour channels blended, the top byte left zero.
LerpColor(a, b, alpha) ==
    Color(0, LerpChannel(a.r, b.r, alpha),
             LerpChannel(a.g, b.g, alpha),
             LerpChannel(a.b, b.b, alpha))

\* The value draw_pixel_to_buffer stores over the destination value `dst`.
Composite(dst, color) ==
    IF GetAlpha(color) = 255 THEN color
    ELSE LerpColor(dst, color, GetAlpha(color))

(***************************************************************************)
(* Buffer memory: pitch * height bytes, a pixel is four bytes at           *)
(* pitch * y + 4 * x, stored little-endian (b, g, r, a).                   *)
(***************************************************************************)
MemSize(buf) == buf.pitch * buf.height

Addr(buf, x, y) == buf.pitch * y + 4 * x

Load(mem, addr) ==
    Color(mem[addr + 3], mem[addr + 2], mem[addr + 1], mem[addr])

Store(mem, addr, c) ==
    [mem EXCEPT ![addr] = c.b, ![addr + 1] = c.g,
                ![addr + 2] = c.r, ![addr + 3] = c.a]

Pixel(buf, x, y) == Load(buf.memory, Addr(buf, x, y))

\* A store through a *mut u32 is defined only inside the buffer's memory and
\* at a 4-byte aligned address (the base address is aligned).
InMemory(buf, addr) == addr >= 0 /\ addr + 4 <= MemSize(buf)
Aligned(addr) == addr % 4 = 0
Faults(buf, addr) == ~InMemory(buf, addr) \/ ~Aligned(addr)

\* A store of the run: [addr, color, blend]; blend is FALSE for clear_buffer's
\* plain `*pixel = color`, TRUE for draw_pixel_to_buffer.
DoStore(buf, mem, s) ==
    IF ~InMemory(buf, s.addr) THEN mem
    ELSE Store(mem, s.addr,
               IF s.blend THEN Composite(Load(mem, s.addr), s.color)
               ELSE s.color)

\* The stores lo..hi of `ss` performed in order.
RECURSIVE ApplyStores(_, _, _, _, _)
ApplyStores(buf, mem, ss, lo, hi) ==
    IF lo > hi THEN mem
    ELSE IF lo = hi THEN DoStore(buf, mem, ss[lo])
    ELSE LET mid == (lo + hi) \div 2
         IN  ApplyStores(buf, ApplyStores(buf, mem, ss, lo, mid), ss, mid + 1, hi)

\* Index of the first store that faults, 0 when none does.
FirstFault(buf, ss) ==
    LET bad == {i \in 1..Len(ss) : Faults(buf, ss[i].addr)}
    IN  IF bad = {} THEN 0 ELSE CHOOSE i \in bad : \A j \in bad : i <= j

\* What a run of stores can leave behind.  Without a faulting store: every
\* store performed.  A faulting store is undefined behaviour: either it traps
\* (the misaligned-pointer check of a debug build, an access violation) and
\* the run ends there, or it goes through (an unaligned store, a store into
\* memory next to the buffer) and the run carries on.
RunStores(buf, ss) ==
    LET k == FirstFault(buf, ss)
    IN  IF k = 0
        THEN {[memory |-> ApplyStores(buf, buf.memory, ss, 1, Len(ss)),
               status |-> "ok"]}
        ELSE {[memory |-> ApplyStores(buf, buf.memory, ss, 1, k - 1),
               status |-> "trapped"],
              [memory |-> ApplyStores(buf, buf.memory, ss, 1, Len(ss)),
               status |-> "undefined"]}

\* draw_pixel_to_buffer calls [x, y, color] as the stores they make.
StoresOf(buf, ws) ==
    [i \in 1..Len(ws) |->
        [addr |-> Addr(buf, ws[i].x, ws[i].y), color |-> ws[i].color,
         blend |-> TRUE]]

Write(x, y, color) == [x |-> x, y |-> y, color |-> color]


(***************************************************************************)
(* Building a buffer: `pix` gives each pixel's colour, `pad` the value of  *)
(* the bytes of a row past width * 4.                                      *)
(***************************************************************************)
ByteOf(c, k) == IF k = 0 THEN c.b ELSE IF k = 1 THEN c.g ELSE IF k = 2 THEN c.r ELSE c.a

MakeBuffer(width, height, pitch, pix, pad) ==
    [width |-> width, height |-> height, pitch |-> pitch,
     memory |-> [i \in 0..(pitch * height - 1) |->
                    LET y == i \div pitch
                        x == (i % pitch) \div 4
                    IN  IF x < width /\ 4 * x + 4 <= pitch
                        THEN ByteOf(pix[<<x, y>>], (i % pitch) % 4)
                        ELSE pad]]

Camera(x, y, width, height, y_scale) ==
    [x |-> x, y |-> y, width |-> width, height |-> height, y_scale |-> y_scale]

NoCamera == Camera(0, 0, 0, 0, 1)
NoBuffer == [width |-> 0, height |-> 0, pitch |-> 0, memory |-> <<>>]
NoCall == [op |-> "none"]

(***************************************************************************)
(* draw_pixel_to_buffer, called on its own with in-range x and y.          *)
(***************************************************************************)
PixelWidth == 2
PixelHeight == 2
PixelColors == {Black, Grey, White, BoxColor, ClearInk, HalfBlue}

InitPixel ==
    /\ \E pitch \in {4 * PixelWidth, 4 * PixelWidth + 4} :
       \E pix \in [(0..(PixelWidth - 1)) \X (0..(PixelHeight - 1)) -> {Black, Grey}] :
          buffer = MakeBuffer(PixelWidth, PixelHeight, pitch, pix, 205)
    /\ camera = NoCamera
    /\ call = NoCall
    /\ result = 0
    /\ writes = <<>>
    /\ status = "ok"
    /\ steps = 0

DrawPixelToBuffer(x, y, color) ==
    /\ steps < MaxSteps
    /\ \E out \in RunStores(buffer, StoresOf(buffer, <<Write(x, y, color)>>)) :
          /\ buffer' = [buffer EXCEPT !.memory = out.memory]
          /\ status' = out.status
    /\ call' = [op |-> "draw_pixel_to_buffer", x |-> x, y |-> y, color |-> color,
                before |-> buffer.memory]
    /\ writes' = <<Write(x, y, color)>>
    /\ steps' = steps + 1
    /\ UNCHANGED <<camera, result>>

NextPixel ==
    \E x \in 0..(PixelWidth - 1), y \in 0..(PixelHeight - 1), color \in PixelColors :
        DrawPixelToBuffer(x, y, color)

SpecPixel == InitPixel /\ [][NextPixel]_vars

\* C1: a source colour with alpha byte 0 leaves the destination pixel's full
\* 32-bit value unchanged, whatever the destination held.
C1_AlphaZeroKeepsPixel ==
    (call.op = "draw_pixel_to_buffer" /\ GetAlpha(call.color) = 0) =>
        Pixel(buffer, call.x, call.y) = Load(call.before, Addr(buffer, call.x, call.y))

\* What the code does keep with alpha 0: the three colour bytes; the top
\* byte of the stored value is zero.
C1_AlphaZeroKeepsRGB ==
    (call.op = "draw_pixel_to_buffer" /\ GetAlpha(call.color) = 0) =>
        LET now == Pixel(buffer, call.x, call.y)
            old == Load(call.before, Addr(buffer, call.x, call.y))
        IN  now = [old EXCEPT !.a = 0]


(***************************************************************************)
(* Vector2u32.  A u32 is held as its two 16-bit halves [hi, lo], so that   *)
(* the whole range 0..2^32-1 and the `as i32` casts keep their width.      *)
(***************************************************************************)
Half == 65536

U32(hi, lo) == [hi |-> hi, lo |-> lo]
ToU32(n) == U32(n \div Half, n % Half)
FromU32(v) == v.hi * Half + v.lo            \* for values below 2^31 only

Vector2u32(x, y) == [x |-> x, y |-> y]

\* Unsigned order and exact difference of two u32 (the difference for a >= b).
U32Geq(a, b) == a.hi > b.hi \/ (a.hi = b.hi /\ a.lo >= b.lo)
U32Minus(a, b) ==
    IF a.lo >= b.lo THEN U32(a.hi - b.hi, a.lo - b.lo)
    ELSE U32(a.hi - b.hi - 1, a.lo - b.lo + Half)

\* `v as i32`: the same bits, the upper half read as a signed 16-bit number.
SignedHi(v) == IF v.hi >= Half \div 2 THEN v.hi - Half ELSE v.hi

\* One component of sub: max(a as i32 - b as i32, 0) as u32.  The i32
\* subtraction overflows when the difference leaves -2^31..2^31-1: a build
\* with overflow checks panics, a build without them wraps.
SubComponent(a, b) ==
    LET borrow == IF a.lo >= b.lo THEN 0 ELSE 1
        lo     == IF a.lo >= b.lo THEN a.lo - b.lo ELSE a.lo - b.lo + Half
        hi     == SignedHi(a) - SignedHi(b) - borrow
        over   == hi < -(Half \div 2) \/ hi >= Half \div 2
        whi    == IF hi < -(Half \div 2) THEN hi + Half
                  ELSE IF hi >= Half \div 2 THEN hi - Half ELSE hi
        value  == IF whi < 0 THEN U32(0, 0) ELSE U32(whi, lo)
    IN  IF over THEN {[panic |-> TRUE, v |-> U32(0, 0)], [panic |-> FALSE, v |-> value]}
        ELSE {[panic |-> FALSE, v |-> value]}

\* impl Sub for Vector2u32: every result the call can have, [panic, x, y].
Vector2u32Sub(self, other) ==
    {IF x.panic \/ y.panic
     THEN [panic |-> TRUE, x |-> U32(0, 0), y |-> U32(0, 0)]
     ELSE [panic |-> FALSE, x |-> x.v, y |-> y.v] :
        x \in SubComponent(self.x, other.x), y \in SubComponent(self.y, other.y)}

\* impl Add for Vector2u32, on small values (no overflow of the u32 sum).
Vector2u32Add(self, other) == Vector2u32(self.x + other.x, self.y + other.y)

\* sub for pixel coordinates held as plain numbers below 2^31.
SmallSub(a, b) ==
    LET r == CHOOSE v \in SubComponent(ToU32(a), ToU32(b)) : ~v.panic
    IN  FromU32(r.v)

\* The u32 values the subtraction is tried on: those within SubSpan of 0, of
\* 2^31 and of 2^32 - 1, and the 5 of the documented example.
SubSpan == 1
SubValues ==
    {U32(0, n) : n \in 0..SubSpan} \cup {U32(0, 5)}
    \cup {U32(Half \div 2 - 1, Half - n) : n \in 1..SubSpan}
    \cup {U32(Half \div 2, n) : n \in 0..SubSpan}
    \cup {U32(Half - 1, Half - 1 - n) : n \in 0..SubSpan}

\* The operands are drawn at the start; `status` is "ready" until the
\* operation has run.
InitSub ==
    /\ buffer = NoBuffer
    /\ camera = NoCamera
    /\ \E ax \in SubValues, ay \in SubValues, bx \in SubValues, by \in SubValues :
          call = [op |-> "sub", self |-> Vector2u32(ax, ay),
                  other |-> Vector2u32(bx, by)]
    /\ result = 0
    /\ writes = <<>>
    /\ status = "ready"
    /\ steps = 0

Sub ==
    /\ status = "ready"
    /\ \E r \in Vector2u32Sub(call.self, call.other) :
          /\ result' = Vector2u32(r.x, r.y)
          /\ status' = IF r.panic THEN "panic" ELSE "ok"
    /\ steps' = steps + 1
    /\ UNCHANGED <<buffer, camera, call, writes>>

NextSub == Sub

SpecSub == InitSub /\ [][NextSub]_vars

\* The saturating difference of two u32: a - b when a >= b, else 0.
Saturating(a, b) == IF U32Geq(a, b) THEN U32Minus(a, b) ELSE U32(0, 0)

\* C2: over the full u32 range the subtraction saturates at zero component-
\* wise and never wraps: each component is a - b when a >= b, 0 when a < b.
C2_SubSaturates ==
    (call.op = "sub" /\ status # "ready") =>
        /\ status = "ok"
        /\ result.x = Saturating(call.self.x, call.other.x)
        /\ result.y = Saturating(call.self.y, call.other.y)

\* When both operands are below 2^31 the subtraction does saturate.
C2_SubSaturatesBelow2p31 ==
    (/\ call.op = "sub" /\ status # "ready"
     /\ \A v \in {call.self.x, call.self.y, call.other.x, call.other.y} :
            v.hi < Half \div 2) =>
        /\ status = "ok"
        /\ result.x = Saturating(call.self.x, call.other.x)
        /\ result.y = Saturating(call.self.y, call.other.y)


(***************************************************************************)
(* World space.  An f32 world coordinate is held as a whole number of      *)
(* 1/WorldDen world units, y_scale as whole pixels per world unit.         *)
(***************************************************************************)
WorldDen == 10000

Vector2(x, y) == [x |-> x, y |-> y]

\* `f as u32` of the f32 num / den: truncation, negative values become 0.
F32AsU32(num, den) == IF num <= 0 THEN 0 ELSE num \div den

\* world_space_to_screen_space: ((pos - camera) * y_scale) as u32.
WorldSpaceToScreenSpace(cam, pos) ==
    Vector2u32(F32AsU32((pos.x - cam.x) * cam.y_scale, WorldDen),
               F32AsU32((pos.y - cam.y) * cam.y_scale, WorldDen))

\* screen_space_to_world_space: pos / y_scale + camera.
ScreenSpaceToWorldSpace(cam, pos) ==
    Vector2((pos.x * WorldDen) \div cam.y_scale + cam.x,
            (pos.y * WorldDen) \div cam.y_scale + cam.y)

\* The largest q in lo..hi with q * q <= n.
ISqrtIn(n, lo, hi) == CHOOSE q \in lo..hi : q * q <= n /\ (q = hi \/ (q + 1) * (q + 1) > n)

(***************************************************************************)
(* draw_circle.  distance() is the f32 square root of dx^2 + dy^2, an      *)
(* integer d2 here; its comparisons with whole radii are comparisons of    *)
(* d2 with their squares.                                                  *)
(***************************************************************************)
Dist2(a, b) == (a.x - b.x) * (a.x - b.x) + (a.y - b.y) * (a.y - b.y)

\* (radius * camera.y_scale) as u32.
ScreenRadius(cam, radius) == F32AsU32(radius * cam.y_scale, WorldDen)

\* The early return of draw_circle.
CircleSkipped(buf, c, r) ==
    \/ c.x - r < 0
    \/ c.x + r > buf.width
    \/ c.y - r < 0
    \/ c.y + r > buf.height

\* dist <= screen_radius as f32
InsideCircleStrict(d2, r) == d2 < r * r
InsideCircle(d2, r) == d2 <= r * r

\* dist <= screen_radius as f32 + 1.0
InsideBand(d2, r) == d2 <= (r + 1) * (r + 1)

\* ((1.0 - (dist - (dist as i32) as f32)) * 255.0) as u32
BandAlpha(d2) ==
    LET q == ISqrtIn(d2, 0, d2)
    IN  IF q * q = d2 THEN 255
        ELSE 255 * (q + 1) - ISqrtIn(65025 * d2, 255 * q, 255 * (q + 1)) - 1

\* The draw_pixel_to_buffer call of one pixel of the square, <<>> if none.
CirclePixel(c, r, x, y, color) ==
    LET d2 == Dist2(c, Vector2u32(x, y))
    IN  IF InsideCircle(d2, r) THEN <<Write(x, y, color)>>
        ELSE IF InsideBand(d2, r)
        THEN <<Write(x, y, [color EXCEPT !.a = BandAlpha(d2)])>>
        ELSE <<>>

\* The calls of the columns x..hi of the square, rows lo..hi of a column.
RECURSIVE CircleColumn(_, _, _, _, _, _)
CircleColumn(c, r, x, y, hi, color) ==
    IF y > hi THEN <<>>
    ELSE CirclePixel(c, r, x, y, color) \o CircleColumn(c, r, x, y + 1, hi, color)

RECURSIVE CircleColumns(_, _, _, _, _)
CircleColumns(c, r, x, hi, color) ==
    IF x > hi THEN <<>>
    ELSE CircleColumn(c, r, x, c.y - r, c.y + r, color)
         \o CircleColumns(c, r, x + 1, hi, color)

\* Every draw_pixel_to_buffer call of draw_circle, in the order of its loops.
CircleWrites(buf, cam, position, radius, color) ==
    LET c == WorldSpaceToScreenSpace(cam, position)
        r == ScreenRadius(cam, radius)
    IN  IF CircleSkipped(buf, c, r) THEN <<>>
        ELSE CircleColumns(c, r, c.x - r, c.x + r, color)


\* The pixels of a buffer, and the buffers the drawing operations start from:
\* one colour, or two colours in a checkerboard, with one of two pitches.
Pixels(buf) == (0..(buf.width - 1)) \X (0..(buf.height - 1))

Patterns(width, height) ==
    {[p \in (0..(width - 1)) \X (0..(height - 1)) |-> Black],
     [p \in (0..(width - 1)) \X (0..(height - 1)) |-> Grey],
     [p \in (0..(width - 1)) \X (0..(height - 1)) |->
         IF (p[1] + p[2]) % 2 = 0 THEN Grey ELSE Black]}

Buffers(width, height) ==
    {MakeBuffer(width, height, pitch, pix, 205) :
        pitch \in {4 * width, 4 * width + 4}, pix \in Patterns(width, height)}

CircleWidth == 6
CircleHeight == 6
MaxRadius == 2

\* Cameras of 50 pixels per world unit; a pixel is 200 / WorldDen wide.
CircleCameras ==
    {Camera(x, x, (CircleWidth * WorldDen) \div 50, (CircleHeight * WorldDen) \div 50, 50) :
        x \in {0, -40}}

\* Centres in the middle of the pixels 0..width, 0..height (the last one past
\* the buffer), radii of r + 1/2 pixels.
CirclePositions ==
    {Vector2(200 * px + 100, 200 * py + 100) : px \in 0..CircleWidth, py \in 0..CircleHeight}
CircleRadii == {200 * r + 100 : r \in 0..MaxRadius}
CircleColors == {Red, HalfBlue}

InitCircle ==
    /\ buffer \in Buffers(CircleWidth, CircleHeight)
    /\ camera \in CircleCameras
    /\ call = NoCall
    /\ result = 0
    /\ writes = <<>>
    /\ status = "ready"
    /\ steps = 0

DrawCircle(position, radius, color) ==
    /\ status = "ready"
    /\ LET ws == CircleWrites(buffer, camera, position, radius, color)
       IN  /\ writes' = ws
           /\ \E out \in RunStores(buffer, StoresOf(buffer, ws)) :
                 /\ buffer' = [buffer EXCEPT !.memory = out.memory]
                 /\ status' = out.status
    /\ call' = [op |-> "draw_circle", position |-> position, radius |-> radius,
                color |-> color, before |-> buffer.memory]
    /\ steps' = steps + 1
    /\ UNCHANGED <<camera, result>>

NextCircle ==
    \E position \in CirclePositions, radius \in CircleRadii, color \in CircleColors :
        DrawCircle(position, radius, color)

SpecCircle == InitCircle /\ [][NextCircle]_vars

\* The circle of the last call: its screen centre, its truncated pixel
\* radius, and its pixel radius radius * y_scale in hundredths of a pixel.
CallCentre == WorldSpaceToScreenSpace(camera, call.position)
CallRadius == ScreenRadius(camera, call.radius)
CallRadiusCenti == (call.radius * camera.y_scale * 100) \div WorldDen

Before(x, y) == Load(call.before, Addr(buffer, x, y))

\* The square [cx - r, cx + r] x [cy - r, cy + r] lies inside the buffer.
SquareInside(c, r) ==
    /\ c.x - r >= 0 /\ c.x + r < buffer.width
    /\ c.y - r >= 0 /\ c.y + r < buffer.height

\* C3: draw_circle never draws partially or out of range: when the square
\* around the circle is not entirely inside the buffer nothing is written,
\* and every pixel written has x < width and y < height.
C3_CircleInRange ==
    call.op = "draw_circle" =>
        /\ ~SquareInside(CallCentre, CallRadius) => writes = <<>>
        /\ \A i \in 1..Len(writes) :
              writes[i].x < buffer.width /\ writes[i].y < buffer.height

\* C4 as stated: for a circle fully on screen with pixel radius R (here in
\* hundredths of a pixel), every pixel at distance <= R from the centre holds
\* exactly the requested colour and every pixel farther than R + 1 holds its
\* previous value.
C4_CircleExactRadius ==
    (/\ call.op = "draw_circle"
     /\ SquareInside(CallCentre, (CallRadiusCenti + 99) \div 100)) =>
        \A p \in Pixels(buffer) :
            LET d2 == Dist2(CallCentre, Vector2u32(p[1], p[2]))
            IN  /\ d2 * 10000 <= CallRadiusCenti * CallRadiusCenti =>
                      Pixel(buffer, p[1], p[2]) = call.color
                /\ d2 * 10000 > (CallRadiusCenti + 100) * (CallRadiusCenti + 100) =>
                      Pixel(buffer, p[1], p[2]) = Before(p[1], p[2])

\* C4 as amended: with r the pixel radius truncated to a whole number, every
\* pixel at distance <= r holds the colour composited over its previous
\* value (the requested colour itself when that is opaque), and every pixel
\* farther than r + 1 holds its previous value.
C4_CircleTruncatedRadius ==
    (/\ call.op = "draw_circle"
     /\ SquareInside(CallCentre, CallRadius)) =>
        /\ status = "ok"
        /\ \A p \in Pixels(buffer) :
            LET d2 == Dist2(CallCentre, Vector2u32(p[1], p[2]))
            IN  /\ d2 <= CallRadius * CallRadius =>
                      /\ Pixel(buffer, p[1], p[2]) = Composite(Before(p[1], p[2]), call.color)
                      /\ GetAlpha(call.color) = 255 =>
                            Pixel(buffer, p[1], p[2]) = call.color
                /\ d2 > (CallRadius + 1) * (CallRadius + 1) =>
                      Pixel(buffer, p[1], p[2]) = Before(p[1], p[2])

\* An opaque circle of truncated radius 2 drawn on screen over a buffer that
\* held another colour, with pixels inside it and pixels beyond its band.
C4_Witness ==
    /\ call.op = "draw_circle"
    /\ SquareInside(CallCentre, CallRadius)
    /\ CallRadius = 2
    /\ call.color = Red
    /\ Pixel(buffer, CallCentre.x + 2, CallCentre.y) = Red
    /\ Before(CallCentre.x + 2, CallCentre.y) = Grey
    /\ \E p \in Pixels(buffer) :
          /\ Dist2(CallCentre, Vector2u32(p[1], p[2])) > 9
          /\ Pixel(buffer, p[1], p[2]) = Grey


(***************************************************************************)
(* Rectangle.                                                              *)
(***************************************************************************)
Rectangle(x, y, width, height) == [x |-> x, y |-> y, width |-> width, height |-> height]

\* Rectangle::intersects as a bug comparing the far edges would have it.
IntersectsFarEdge(self, other) ==
    \/ self.x + self.width >= other.x + other.width
    \/ self.y + self.height >= other.y + other.height

\* Rectangle::intersects.
Intersects(self, other) ==
    \/ self.x + self.width >= other.x
    \/ self.y + self.height >= other.y

\* Camera::get_bounding_box.
CameraGetBoundingBox(cam) == Rectangle(cam.x, cam.y, cam.width, cam.height)

\* Rectangles with corners and sizes on a grid of whole world units.
RectSpan == 2
Rectangles ==
    {Rectangle(x * WorldDen, y * WorldDen, w * WorldDen, h * WorldDen) :
        x \in -RectSpan..RectSpan, y \in -RectSpan..RectSpan,
        w \in 0..RectSpan, h \in 0..RectSpan}

InitIntersects ==
    /\ buffer = NoBuffer
    /\ camera = NoCamera
    /\ \E a \in Rectangles, b \in Rectangles :
          call = [op |-> "intersects", self |-> a, other |-> b]
    /\ result = [ab |-> FALSE, ba |-> FALSE]
    /\ writes = <<>>
    /\ status = "ready"
    /\ steps = 0

\* a.intersects(b) and b.intersects(a).
IntersectsBothWays ==
    /\ status = "ready"
    /\ result' = [ab |-> Intersects(call.self, call.other),
                  ba |-> Intersects(call.other, call.self)]
    /\ status' = "ok"
    /\ steps' = steps + 1
    /\ UNCHANGED <<buffer, camera, call, writes>>

NextIntersects == IntersectsBothWays

SpecIntersects == InitIntersects /\ [][NextIntersects]_vars

\* The extents of a and b share a point on the x axis and on the y axis.
Overlap(a, b) ==
    /\ a.x <= b.x + b.width /\ b.x <= a.x + a.width
    /\ a.y <= b.y + b.height /\ b.y <= a.y + a.height

\* C6: intersects has no false negatives: two rectangles of non-negative
\* size whose extents overlap on both axes intersect, in either order.
C6_NoFalseNegative ==
    (call.op = "intersects" /\ status = "ok" /\ Overlap(call.self, call.other)) =>
        result.ab /\ result.ba

\* Two different rectangles that overlap in an area, tested both ways.
C6_Witness ==
    /\ call.op = "intersects" /\ status = "ok"
    /\ call.self # call.other
    /\ call.self.x < call.other.x /\ call.other.x < call.self.x + call.self.width
    /\ call.self.y < call.other.y /\ call.other.y < call.self.y + call.self.height
    /\ result.ab /\ result.ba


(***************************************************************************)
(* BezierCurve.  Control points lie on tenths of a world unit (multiples   *)
(* of Tenth), as those of the scene do; the parameter t is a whole number  *)
(* of 1/TDen, the step of min_distance.  Positions on the curve are        *)
(* rounded to 1/WorldDen.                                                  *)
(***************************************************************************)
TDen == 100
Tenth == WorldDen \div 10
F32Max == 1000000000        \* stands for f32::MAX; f32::MIN is -F32Max

\* n / d rounded to the nearest whole number, d # 0.
RoundDiv(n, d) ==
    IF d > 0 THEN (2 * n + d) \div (2 * d) ELSE (-2 * n - d) \div (-2 * d)

\* The four polynomials of evaluate() at t / TDen, times TDen^3.
Weight0(t) == -(t * t * t) + 3 * t * t * TDen - 3 * t * TDen * TDen + TDen * TDen * TDen
Weight1(t) == 3 * t * t * t - 6 * t * t * TDen + 3 * t * TDen * TDen
Weight2(t) == -3 * t * t * t + 3 * t * t * TDen
Weight3(t) == t * t * t

EvaluateAxis(c0, c1, c2, c3, t) ==
    RoundDiv((c0 \div Tenth) * Weight0(t) + (c1 \div Tenth) * Weight1(t)
             + (c2 \div Tenth) * Weight2(t) + (c3 \div Tenth) * Weight3(t),
             (TDen * TDen * TDen) \div Tenth)

\* BezierCurve::evaluate at t / TDen.
Evaluate(curve, t) ==
    Vector2(EvaluateAxis(curve.p0.x, curve.p1.x, curve.p2.x, curve.p3.x, t),
            EvaluateAxis(curve.p0.y, curve.p1.y, curve.p2.y, curve.p3.y, t))

\* The two parameters (tx0, tx1) of one axis in get_bounding_box, each
\* [in, t]: `in` says that the parameter lies strictly between 0 and 1 (a
\* NaN or an infinity does not), t is the parameter rounded to 1/TDen.
\* a, b, c are the derivative's coefficients in tenths; the square root is
\* taken to a tenth of that unit.
NoRoot == [in |-> FALSE, t |-> 0]
Root(num, den) ==
    IF den = 0 THEN NoRoot
    ELSE [in |-> IF den > 0 THEN num > 0 /\ num < den ELSE num < 0 /\ num > den,
          t  |-> IF (IF den > 0 THEN num > 0 /\ num < den ELSE num < 0 /\ num > den)
                 THEN RoundDiv(num * TDen, den) ELSE 0]

AxisRoots(c0, c1, c2, c3) ==
    LET a == (-3 * c0 + 9 * c1 - 9 * c2 + 3 * c3) \div Tenth
        b == (6 * c0 - 12 * c1 + 6 * c2) \div Tenth
        c == (-3 * c0 + 3 * c1) \div Tenth
        disc == b * b - 4 * a * c
    IN  IF a = 0
        THEN <<Root(-c, b), Root(-c, b)>>
        ELSE IF disc < 0 THEN <<NoRoot, NoRoot>>
        ELSE LET quad == ISqrtIn(disc * 100, 0, 10 * (Abs(b) + 2 * Abs(a) + 2 * Abs(c) + 1))
             IN  <<Root(-10 * b + quad, 20 * a), Root(-10 * b - quad, 20 * a)>>

\* The points get_bounding_box collects, in its order.
CandidatePoints(curve) ==
    LET tx == AxisRoots(curve.p0.x, curve.p1.x, curve.p2.x, curve.p3.x)
        ty == AxisRoots(curve.p0.y, curve.p1.y, curve.p2.y, curve.p3.y)
        At(root) == IF root.in THEN <<Evaluate(curve, root.t)>> ELSE <<>>
    IN  <<Evaluate(curve, 0), Evaluate(curve, TDen)>>
        \o At(tx[1]) \o At(ty[1]) \o At(tx[2]) \o At(ty[2])

\* The min/max loop of get_bounding_box: `if < min ... else if > max ...`.
RECURSIVE MinMax(_, _, _)
MinMax(points, i, m) ==
    IF i > Len(points) THEN m
    ELSE LET pt == points[i]
         IN  MinMax(points, i + 1,
                [min_x |-> IF pt.x < m.min_x THEN pt.x ELSE m.min_x,
                 max_x |-> IF ~(pt.x < m.min_x) /\ pt.x > m.max_x THEN pt.x ELSE m.max_x,
                 min_y |-> IF pt.y < m.min_y THEN pt.y ELSE m.min_y,
                 max_y |-> IF ~(pt.y < m.min_y) /\ pt.y > m.max_y THEN pt.y ELSE m.max_y])

\* BezierCurve::get_bounding_box.
GetBoundingBox(curve) ==
    LET m == MinMax(CandidatePoints(curve), 1,
                    [min_x |-> F32Max, min_y |-> F32Max,
                     max_x |-> -F32Max, max_y |-> -F32Max])
    IN  Rectangle(m.min_x, m.min_y, m.max_x - m.min_x, m.max_y - m.min_y)

\* BezierCurve::new.
BezierCurveNew(p0, p1, p2, p3) ==
    LET curve == [p0 |-> p0, p1 |-> p1, p2 |-> p2, p3 |-> p3,
                  bounding_box |-> Rectangle(0, 0, 0, 0)]
    IN  [curve EXCEPT !.bounding_box = GetBoundingBox(curve)]

\* The curve of game_update_and_render: (0, 0.5), (1, 0), (1, 1.6), (0, 2).
GameCurve ==
    BezierCurveNew(Vector2(0, 5 * Tenth), Vector2(10 * Tenth, 0),
                   Vector2(10 * Tenth, 16 * Tenth), Vector2(0, 20 * Tenth))


\* Control points on the whole world units 0..CurveSpan.
CurveSpan == 2
ControlPoints ==
    {Vector2(x * WorldDen, y * WorldDen) : x \in 0..CurveSpan, y \in 0..CurveSpan}

InitNew ==
    /\ buffer = NoBuffer
    /\ camera = NoCamera
    /\ \E p0 \in ControlPoints, p1 \in ControlPoints,
          p2 \in ControlPoints, p3 \in ControlPoints :
          call = [op |-> "new", p0 |-> p0, p1 |-> p1, p2 |-> p2, p3 |-> p3]
    /\ result = 0
    /\ writes = <<>>
    /\ status = "ready"
    /\ steps = 0

New ==
    /\ status = "ready"
    /\ result' = BezierCurveNew(call.p0, call.p1, call.p2, call.p3)
    /\ status' = "ok"
    /\ steps' = steps + 1
    /\ UNCHANGED <<buffer, camera, call, writes>>

NextNew == New

SpecNew == InitNew /\ [][NextNew]_vars

\* C5: for every cubic curve the rectangle of get_bounding_box, cached by
\* BezierCurve::new, is the componentwise min/max of the candidate points
\* and contains evaluate(t) for every sampled t in [0, 1].
C5_BoundingBoxContainsCurve ==
    (call.op = "new" /\ status = "ok") =>
        LET box == result.bounding_box
            pts == CandidatePoints(result)
        IN  /\ \A i \in 1..Len(pts) :
                  /\ box.x <= pts[i].x /\ pts[i].x <= box.x + box.width
                  /\ box.y <= pts[i].y /\ pts[i].y <= box.y + box.height
            /\ \E i \in 1..Len(pts) : pts[i].x = box.x
            /\ \E i \in 1..Len(pts) : pts[i].x = box.x + box.width
            /\ \E i \in 1..Len(pts) : pts[i].y = box.y
            /\ \E i \in 1..Len(pts) : pts[i].y = box.y + box.height
            /\ \A t \in 0..TDen :
                  LET e == Evaluate(result, t)
                  IN  /\ box.x <= e.x /\ e.x <= box.x + box.width
                      /\ box.y <= e.y /\ e.y <= box.y + box.height


(***************************************************************************)
(* BezierCurve::modify.  The receiver is taken by value (`mut self`): the  *)
(* method works on the curve moved into it, and that curve is dropped when *)
(* the method returns.  `self` below is the receiver as the method leaves  *)
(* it, `stderr` the lines it printed.                                      *)
(***************************************************************************)
\* modify as a last `else` that assigns p3 would have it.
ModifyElseAssigns(self, point, new_position) ==
    LET moved == IF point = 0 THEN [self EXCEPT !.p0 = new_position]
                 ELSE IF point = 1 THEN [self EXCEPT !.p1 = new_position]
                 ELSE IF point = 2 THEN [self EXCEPT !.p2 = new_position]
                 ELSE [self EXCEPT !.p3 = new_position]
    IN  [self |-> [moved EXCEPT !.bounding_box = GetBoundingBox(moved)],
         stderr |-> IF point > 3 THEN <<[invalid_point |-> point]>> ELSE <<>>]

Modify(self, point, new_position) ==
    LET moved == IF point = 0 THEN [self EXCEPT !.p0 = new_position]
                 ELSE IF point = 1 THEN [self EXCEPT !.p1 = new_position]
                 ELSE IF point = 2 THEN [self EXCEPT !.p2 = new_position]
                 ELSE IF point = 3 THEN [self EXCEPT !.p3 = new_position]
                 ELSE self
    IN  [self |-> [moved EXCEPT !.bounding_box = GetBoundingBox(moved)],
         stderr |-> IF point > 3 THEN <<[invalid_point |-> point]>> ELSE <<>>]

\* The point indices tried: 0..MaxPoint and the largest u8.
MaxPoint == 5
PointIndices == (0..MaxPoint) \cup {255}

\* The curves modified: the scene's curve and the curves whose control
\* points are two corners of the unit square.
ModifyCurves ==
    {GameCurve} \cup
    {BezierCurveNew(p0, p1, p2, p3) :
        p0 \in {Vector2(0, 0), Vector2(WorldDen, WorldDen)},
        p1 \in {Vector2(0, 0), Vector2(WorldDen, WorldDen)},
        p2 \in {Vector2(0, 0), Vector2(WorldDen, WorldDen)},
        p3 \in {Vector2(0, 0), Vector2(WorldDen, WorldDen)}}

InitModify ==
    /\ buffer = NoBuffer
    /\ camera = NoCamera
    /\ \E curve \in ModifyCurves, point \in PointIndices, pos \in ControlPoints :
          call = [op |-> "modify", self |-> curve, point |-> point,
                  new_position |-> pos]
    /\ result = [self |-> 0, stderr |-> <<>>]
    /\ writes = <<>>
    /\ status = "ready"
    /\ steps = 0

ModifyCall ==
    /\ status = "ready"
    /\ result' = Modify(call.self, call.point, call.new_position)
    /\ status' = "ok"
    /\ steps' = steps + 1
    /\ UNCHANGED <<buffer, camera, call, writes>>

NextModify == ModifyCall

SpecModify == InitModify /\ [][NextModify]_vars

BlockWrites(x0, x1, y0, y1, color) ==
    IF x1 < x0 \/ y1 < y0 THEN <<>>
    ELSE [k \in 1..((x1 - x0 + 1) * (y1 - y0 + 1)) |->
             Write(x0 + (k - 1) \div (y1 - y0 + 1), y0 + ((k - 1) % (y1 - y0 + 1)), color)]

\* draw_rectangle: the corners in screen space, clamped to the buffer.
RectangleWrites(buf, cam, rectangle, color) ==
    LET top_left == WorldSpaceToScreenSpace(cam, Vector2(rectangle.x, rectangle.y))
        bottom_right == WorldSpaceToScreenSpace(cam,
                            Vector2(rectangle.x + rectangle.width,
                                    rectangle.y + rectangle.height))
        start_x == Max(top_left.x, 0)
        start_y == Max(top_left.y, 0)
        end_x == Min(bottom_right.x, buf.width)
        end_y == Min(bottom_right.y, buf.height)
    IN  BlockWrites(start_x, end_x - 1, start_y, end_y - 1, color)

\* The curves of `beziers` (by their index) that draw_bounding_boxes does not
\* skip, in order.
RECURSIVE BoxesDrawn(_, _, _)
BoxesDrawn(cam, beziers, i) ==
    IF i > Len(beziers) THEN <<>>
    ELSE (IF ~Intersects(beziers[i].bounding_box, CameraGetBoundingBox(cam))
          THEN <<>> ELSE <<i>>)
         \o BoxesDrawn(cam, beziers, i + 1)

\* The draw_pixel_to_buffer calls of the draw_rectangle calls made for the
\* curves drawn[i..].
RECURSIVE BoxesWrites(_, _, _, _, _)
BoxesWrites(buf, cam, beziers, drawn, i) ==
    IF i > Len(drawn) THEN <<>>
    ELSE RectangleWrites(buf, cam, beziers[drawn[i]].bounding_box, BoxColor)
         \o BoxesWrites(buf, cam, beziers, drawn, i + 1)

\* Cameras of 2 pixels per world unit whose view is the whole buffer, at
\* whole world positions within BoxesSpan of the origin.
BoxesWidth == 4
BoxesHeight == 4
BoxesSpan == 3
BoxesCameras ==
    {Camera(x * WorldDen, y * WorldDen,
            (BoxesWidth * WorldDen) \div 2, (BoxesHeight * WorldDen) \div 2, 2) :
        x \in {-BoxesSpan, 0, BoxesSpan}, y \in {-BoxesSpan, 0, BoxesSpan}}

\* Curves that run from a to b with a <= b on both axes: their cached
\* bounding rectangle is the rectangle from a to b.
BoxesCurves ==
    {BezierCurveNew(a, a, b, b) :
        a \in ControlPoints, b \in ControlPoints}

Rising(curve) == curve.p0.x <= curve.p3.x /\ curve.p0.y <= curve.p3.y

InitBoxes ==
    /\ buffer \in Buffers(BoxesWidth, BoxesHeight)
    /\ camera \in BoxesCameras
    /\ \E c \in {k \in BoxesCurves : Rising(k)} :
       \E beziers \in {<<c>>, <<GameCurve, c>>} :
          call = [op |-> "draw_bounding_boxes", beziers |-> beziers]
    /\ result = <<>>
    /\ writes = <<>>
    /\ status = "ready"
    /\ steps = 0

\* draw_bounding_boxes; `result` lists the curves draw_rectangle was called for.
DrawBoundingBoxes ==
    /\ status = "ready"
    /\ LET drawn == BoxesDrawn(camera, call.beziers, 1)
           ws == BoxesWrites(buffer, camera, call.beziers, drawn, 1)
       IN  /\ result' = drawn
           /\ writes' = ws
           /\ \E out \in RunStores(buffer, StoresOf(buffer, ws)) :
                 /\ buffer' = [buffer EXCEPT !.memory = out.memory]
                 /\ status' = out.status
    /\ call' = [call EXCEPT !.op = "draw_bounding_boxes"]
    /\ steps' = steps + 1
    /\ UNCHANGED camera

NextBoxes == DrawBoundingBoxes

SpecBoxes == InitBoxes /\ [][NextBoxes]_vars

\* C7: draw_bounding_boxes skips the curves whose cached bounding rectangle
\* does not overlap the camera's rectangle on both axes: draw_rectangle is
\* called only for curves whose rectangle overlaps it.
C7_SkipsNonOverlapping ==
    (call.op = "draw_bounding_boxes" /\ status # "ready") =>
        \A i \in 1..Len(result) :
            Overlap(call.beziers[result[i]].bounding_box, CameraGetBoundingBox(camera))


(***************************************************************************)
(* min_distance and draw_bezier_curve.  Distances are compared by their    *)
(* squares, in squared world units.                                        *)
(***************************************************************************)
\* The points evaluate() gives for the t of min_distance's loop: 0, 0.01, ...
\* up to 1.
Samples(curve) == [k \in 0..TDen |-> Evaluate(curve, k)]

\* min_distance's loop over the samples lo..hi: the least squared distance
\* of `point` to one of them.
RECURSIVE MinDistance(_, _, _, _)
MinDistance(samples, point, lo, hi) ==
    IF lo = hi THEN Dist2(samples[lo], point)
    ELSE LET mid == (lo + hi) \div 2
         IN  Min(MinDistance(samples, point, lo, mid),
                 MinDistance(samples, point, mid + 1, hi))

\* The squared minimum distance of the world point of pixel (x, y); min_dist
\* starts at f32::MAX.
PixelDistance(cam, samples, x, y) ==
    Min(F32Max,
        MinDistance(samples, ScreenSpaceToWorldSpace(cam, Vector2u32(x, y)), 0, TDen))

\* draw_bezier_curve: the screen box of the cached bounding rectangle, grown
\* by `radius as u32 + 2`, is walked whole; a pixel is painted white when
\* its distance times the scale is at most the radius times the scale.
BezierWrites(cam, bezier, samples, radius) ==
    LET bounding_box == bezier.bounding_box
        margin == F32AsU32(radius, WorldDen) + 2
        top_left == WorldSpaceToScreenSpace(cam, Vector2(bounding_box.x, bounding_box.y))
        bottom_right == WorldSpaceToScreenSpace(cam,
                            Vector2(bounding_box.x + bounding_box.width,
                                    bounding_box.y + bounding_box.height))
        top_left_screen_space ==
            Vector2u32(SmallSub(top_left.x, margin), SmallSub(top_left.y, margin))
        bottom_right_screen_space ==
            Vector2u32Add(bottom_right, Vector2u32(margin, margin))
        Painted(w) == PixelDistance(cam, samples, w.x, w.y) <= radius * radius
    IN  SelectSeq(BlockWrites(top_left_screen_space.x, bottom_right_screen_space.x,
                              top_left_screen_space.y, bottom_right_screen_space.y,
                              White),
                  Painted)

\* The radius game_update_and_render draws the curve with: 0.02.
CurveRadius == WorldDen \div 50

\* The scenes the curve is drawn in: [width, height, camera].  The wide views
\* have 2 pixels per world unit and start at half units within WideSpan
\* halves of the origin; the close view has 200 pixels per world unit (the
\* radius is 4 pixels there) and looks at the end point (0, 2) of the curve.
WideSpan == 2
CloseWidth == 14
CloseHeight == 3
Scene(width, height, x, y, y_scale) ==
    [width |-> width, height |-> height,
     camera |-> Camera(x, y, (width * WorldDen) \div y_scale,
                       (height * WorldDen) \div y_scale, y_scale)]
Scenes ==
    {Scene(4, 4, (x * WorldDen) \div 2, (y * WorldDen) \div 2, 2) :
        x \in (-WideSpan)..0, y \in (-WideSpan)..WideSpan}
    \cup {Scene(CloseWidth, CloseHeight, -2 * (WorldDen \div 100),
                2 * WorldDen + WorldDen \div 200, 200)}

InitBezier ==
    /\ \E scene \in Scenes :
          /\ buffer \in Buffers(scene.width, scene.height)
          /\ camera = scene.camera
    /\ call = [op |-> "draw_bezier_curve", bezier |-> GameCurve,
               samples |-> Samples(GameCurve), radius |-> CurveRadius,
               before |-> <<>>]
    /\ result = 0
    /\ writes = <<>>
    /\ status = "ready"
    /\ steps = 0

DrawBezierCurve ==
    /\ status = "ready"
    /\ LET ws == BezierWrites(camera, call.bezier, call.samples, call.radius)
       IN  /\ writes' = ws
           /\ \E out \in RunStores(buffer, StoresOf(buffer, ws)) :
                 /\ buffer' = [buffer EXCEPT !.memory = out.memory]
                 /\ status' = out.status
    /\ call' = [call EXCEPT !.before = buffer.memory]
    /\ steps' = steps + 1
    /\ UNCHANGED <<camera, result>>

NextBezier == DrawBezierCurve

SpecBezier == InitBezier /\ [][NextBezier]_vars

\* C8: after draw_bezier_curve of the game's curve with radius 0.02, every
\* pixel of the buffer whose world point has min_distance <= 0.02 is
\* 0xFFFFFFFF, and every pixel whose world point has min_distance >
\* 0.02 + 1 / scale has the value it had before.
C8_Thickness ==
    (call.op = "draw_bezier_curve" /\ status # "ready") =>
        \A p \in Pixels(buffer) :
            LET d == PixelDistance(camera, call.samples, p[1], p[2])
                far == call.radius + WorldDen \div camera.y_scale
            IN  /\ d <= call.radius * call.radius => Pixel(buffer, p[1], p[2]) = White
                /\ d > far * far =>
                       Pixel(buffer, p[1], p[2])
                           = Load(call.before, Addr(buffer, p[1], p[2]))

\* The same for the pixels the walked box holds: of those, the ones within
\* the radius are white when the call has returned.
C8_ThicknessInsideBox ==
    (call.op = "draw_bezier_curve" /\ status = "ok") =>
        \A i \in 1..Len(writes) :
            (writes[i].x < buffer.width /\ writes[i].y < buffer.height)
                => Pixel(buffer, writes[i].x, writes[i].y) = White


(***************************************************************************)
(* clear_buffer.                                                           *)
(***************************************************************************)
\* The stores of a clear_buffer whose row pointer advances by width * 4.
ClearStoresTight(buf, color) ==
    [k \in 1..(buf.width * buf.height) |->
        [addr |-> 4 * buf.width * ((k - 1) \div buf.width) + 4 * ((k - 1) % buf.width),
         color |-> color, blend |-> FALSE]]

\* The stores of clear_buffer in order: row y starts y * pitch bytes after
\* the base, its pixel x is 4 * x bytes further.
ClearStores(buf, color) ==
    [k \in 1..(buf.width * buf.height) |->
        [addr |-> buf.pitch * ((k - 1) \div buf.width) + 4 * ((k - 1) % buf.width),
         color |-> color, blend |-> FALSE]]

\* Buffers of up to ClearWidth x ClearHeight pixels whose rows have up to
\* ClearPad bytes after their pixels.
ClearWidth == 2
ClearHeight == 2
ClearPad == 4
ClearBuffers ==
    UNION {
        {MakeBuffer(width, height, pitch, pix, 205) :
            pitch \in (4 * width)..(4 * width + ClearPad),
            pix \in Patterns(width, height)} :
        width \in 1..ClearWidth, height \in 1..ClearHeight}
ClearColors == {Black, ClearInk, White}

InitClear ==
    /\ buffer \in ClearBuffers
    /\ camera = NoCamera
    /\ call = NoCall
    /\ result = 0
    /\ writes = <<>>
    /\ status = "ready"
    /\ steps = 0

ClearBuffer(color) ==
    /\ status # "trapped"
    /\ steps < MaxSteps
    /\ \E out \in RunStores(buffer, ClearStores(buffer, color)) :
          /\ buffer' = [buffer EXCEPT !.memory = out.memory]
          /\ status' = out.status
    /\ call' = [op |-> "clear_buffer", color |-> color, before |-> buffer.memory]
    /\ steps' = steps + 1
    /\ UNCHANGED <<camera, result, writes>>

NextClear == \E color \in ClearColors : ClearBuffer(color)

SpecClear == InitClear /\ [][NextClear]_vars

\* The bytes of a row after its pixels.
Padding(buf) == {i \in 0..(MemSize(buf) - 1) : i % buf.pitch >= 4 * buf.width}

\* What a finished clear leaves: every pixel has the colour, the padding is
\* as it was, and the stores of one more clear with the colour change nothing.
Cleared ==
    /\ status = "ok"
    /\ \A p \in Pixels(buffer) : Pixel(buffer, p[1], p[2]) = call.color
    /\ \A i \in Padding(buffer) : buffer.memory[i] = call.before[i]
    /\ ApplyStores(buffer, buffer.memory, ClearStores(buffer, call.color),
                   1, buffer.width * buffer.height) = buffer.memory

\* C10 as stated: for every pitch >= width * 4, clear_buffer sets every pixel
\* to the colour whatever the buffer held, leaves the padding bytes of the
\* rows unchanged, and clearing again with the colour changes nothing.
C10_ClearAnyPitch ==
    call.op = "clear_buffer" => Cleared

\* C10, amended: the same for every pitch >= width * 4 that is a multiple of
\* 4, the alignment of the u32 stores.
C10_ClearAlignedPitch ==
    (call.op = "clear_buffer" /\ buffer.pitch % 4 = 0) => Cleared

\* A clear went through rows with padding, over pixels of another colour.
C10_Witness ==
    /\ call.op = "clear_buffer"
    /\ status = "ok"
    /\ buffer.pitch > 4 * buffer.width
    /\ buffer.pitch % 4 = 0
    /\ buffer.height > 1
    /\ buffer.width > 1
    /\ \E p \in Pixels(buffer) :
          Load(call.before, Addr(buffer, p[1], p[2])) # call.color
    /\ \A p \in Pixels(buffer) : Pixel(buffer, p[1], p[2]) = call.color


(***************************************************************************)
(* draw_unit_grid and game_update_and_render.                              *)
(***************************************************************************)
\* (v as i32) as f32: the whole part of a world coordinate, towards zero.
Trunc(v) ==
    IF v >= 0 THEN (v \div WorldDen) * WorldDen
    ELSE -(((-v) \div WorldDen) * WorldDen)

\* camera_y_dec, camera_x_dec: the coordinate less its whole part.
CameraDec(v) == v - Trunc(v)

\* The screen offsets of the grid lines one pass of draw_unit_grid draws, in
\* order: line k of 0..(extent as u32) is at (dec + k) * y_scale, drawn when
\* that is positive, except the last line when dec is 0.
GridOffsets(cam, position, extent) ==
    LET last == F32AsU32(extent, WorldDen)
        dec == CameraDec(position)
        Offset(k) == (dec + k * WorldDen) * cam.y_scale
        Drawn(k) == Offset(k) > 0 /\ ~(k = last /\ dec = 0)
        lines == SelectSeq([i \in 1..(last + 1) |-> i - 1], Drawn)
    IN  [i \in 1..Len(lines) |-> F32AsU32(Offset(lines[i]), WorldDen)]

\* draw_unit_grid: the horizontal lines column by column, then the vertical
\* lines row by row.
GridWrites(buf, cam) ==
    LET ys == GridOffsets(cam, cam.y, cam.height)
        xs == GridOffsets(cam, cam.x, cam.width)
        horizontal ==
            IF Len(ys) = 0 THEN <<>>
            ELSE [k \in 1..(buf.width * Len(ys)) |->
                     Write((k - 1) \div Len(ys), ys[((k - 1) % Len(ys)) + 1], Grey)]
        vertical ==
            IF Len(xs) = 0 THEN <<>>
            ELSE [k \in 1..(buf.height * Len(xs)) |->
                     Write(xs[((k - 1) % Len(xs)) + 1], (k - 1) \div Len(xs), Grey)]
    IN  horizontal \o vertical

\* The radius game_update_and_render draws its circle with: 0.05.
MarkerRadius == WorldDen \div 20

\* The draw_pixel_to_buffer calls of one frame, by the operation that issues
\* them.
FrameWrites(buf, cam, bezier, samples) ==
    LET beziers == <<bezier>>
    IN  [grid   |-> GridWrites(buf, cam),
         circle |-> CircleWrites(buf, cam, Vector2(0, 0), MarkerRadius, Red),
         boxes  |-> BoxesWrites(buf, cam, beziers, BoxesDrawn(cam, beziers, 1), 1),
         bezier |-> BezierWrites(cam, bezier, samples, CurveRadius)]

\* The millisecond clock: the frame prints its timing when nothing was
\* printed yet or PerfPeriod ms have passed since the last print.
PerfPeriod == 1000
LastPerfPrint(last_perf_print, time_now) ==
    IF last_perf_print = 0 \/ time_now - last_perf_print >= PerfPeriod
    THEN time_now ELSE last_perf_print

\* Cameras of 2 pixels per world unit at positions of whole halves within
\* GameSpan halves of the origin, seeing 2..GameSize halves each way; the
\* buffer is camera.width * y_scale by camera.height * y_scale pixels.
GameSpan == 1
GameSize == 4
GameCameras ==
    {Camera((x * WorldDen) \div 2, (y * WorldDen) \div 2,
            (w * WorldDen) \div 2, (h * WorldDen) \div 2, 2) :
        x \in (-GameSpan)..GameSpan, y \in (-GameSpan)..GameSpan,
        w \in 2..GameSize, h \in 2..GameSize}
GameTimes == {PerfPeriod + PerfPeriod \div 2, 2 * PerfPeriod}

InitGame ==
    /\ camera \in GameCameras
    /\ buffer \in Buffers((camera.width * camera.y_scale) \div WorldDen,
                          (camera.height * camera.y_scale) \div WorldDen)
    /\ \E last \in {0, PerfPeriod} :
          call = [op |-> "none", last_perf_print |-> last,
                  bezier |-> GameCurve, samples |-> Samples(GameCurve)]
    /\ result = 0
    /\ writes = <<>>
    /\ status = "ready"
    /\ steps = 0

\* game_update_and_render; `call` holds the frame's curve and the points
\* min_distance samples on it, `result` keeps the frame's calls by operation,
\* `writes` those of draw_unit_grid, draw_rectangle and draw_bezier_curve.
GameUpdateAndRender(time_now) ==
    /\ status = "ready"
    /\ \E frame \in {FrameWrites(buffer, camera, call.bezier, call.samples)} :
          /\ result' = frame
          /\ writes' = frame.grid \o frame.boxes \o frame.bezier
          /\ \E out \in RunStores(buffer,
                                  ClearStores(buffer, Black)
                                  \o StoresOf(buffer, frame.grid \o frame.circle
                                                      \o frame.boxes \o frame.bezier)) :
                /\ buffer' = [buffer EXCEPT !.memory = out.memory]
                /\ status' = out.status
    /\ call' = [call EXCEPT !.op = "game_update_and_render",
                            !.last_perf_print = LastPerfPrint(@, time_now)]
    /\ steps' = steps + 1
    /\ UNCHANGED camera

NextGame == \E time_now \in GameTimes : GameUpdateAndRender(time_now)

SpecGame == InitGame /\ [][NextGame]_vars

InRange(buf, ws) ==
    \A i \in 1..Len(ws) : ws[i].x < buf.width /\ ws[i].y < buf.height

\* C11: in a frame of game_update_and_render, on a buffer of camera.width *
\* scale by camera.height * scale pixels, every draw_pixel_to_buffer call of
\* draw_unit_grid, draw_rectangle and draw_bezier_curve has x < buffer.width
\* and y < buffer.height.
C11_CallersInRange ==
    call.op = "game_update_and_render" => InRange(buffer, writes)

\* The part of it that draw_rectangle keeps: its calls are in range.
C11_RectangleInRange ==
    call.op = "game_update_and_render" => InRange(buffer, result.boxes)

\* The part draw_unit_grid keeps: with a camera position that has no
\* positive fraction, its calls are in range.
C11_GridInRangeWholeCamera ==
    (call.op = "game_update_and_render"
        /\ CameraDec(camera.x) <= 0 /\ CameraDec(camera.y) <= 0)
        => InRange(buffer, result.grid)

=============================================================================
